---- MODULE Spec2Model ----
(***************************************************************************)
(* A model of the two units of the repository:                             *)
(*   tfx/examples/experimental/iris_utils_sklearn.py                       *)
(*       preprocessing_fn, _input_fn / _tf_dataset_to_numpy, run_fn        *)
(*   tfx/dependencies.py                                                   *)
(*       the package lists and make_all_dependency_packages                *)
(* The units do not interact, so each has its own specification over its   *)
(* own variables; the variables of the other units are parked at Unused.   *)
(***************************************************************************)
EXTENDS Integers, Sequences, FiniteSets, TLC

VARIABLES
  \* run_fn, one entry per invocation
  pc, fn_args, existed, model, trace, raised, serving,
  \* the epoch arithmetic of run_fn (lines 135 and 143) on its own
  train_steps, steps_per_epoch, max_iter, epc,
  \* preprocessing_fn
  inputs, outputs, key_idx, pre_pc, pre_result,
  \* _input_fn and _tf_dataset_to_numpy
  source, cursor, buffer, feature_list, label_list, in_pc, in_result,
  \* dependencies.py
  returned, all_pc, all_left, all_right

runVars   == <<pc, fn_args, existed, model, trace, raised, serving>>
epochVars == <<train_steps, steps_per_epoch, max_iter, epc>>
preVars   == <<inputs, outputs, key_idx, pre_pc, pre_result>>
inVars    == <<source, cursor, buffer, feature_list, label_list, in_pc,
               in_result>>
depVars   == <<returned, all_pc, all_left, all_right>>
vars      == <<runVars, epochVars, preVars, inVars, depVars>>

Unused == "unused"

RunParked   == /\ pc = Unused /\ fn_args = Unused /\ existed = Unused
               /\ model = Unused /\ trace = Unused /\ raised = Unused
               /\ serving = Unused
EpochParked == /\ train_steps = Unused /\ steps_per_epoch = Unused
               /\ max_iter = Unused /\ epc = Unused
PreParked   == /\ inputs = Unused /\ outputs = Unused /\ key_idx = Unused
               /\ pre_pc = Unused /\ pre_result = Unused
InParked    == /\ source = Unused /\ cursor = Unused /\ buffer = Unused
               /\ feature_list = Unused
               /\ label_list = Unused /\ in_pc = Unused /\ in_result = Unused
DepParked   == /\ returned = Unused /\ all_pc = Unused /\ all_left = Unused
               /\ all_right = Unused

(***************************************************************************)
(* Module constants of iris_utils_sklearn.py                               *)
(***************************************************************************)
FEATURE_KEYS == <<"sepal_length", "sepal_width", "petal_length", "petal_width">>
LABEL_KEY == "variety"
TRAIN_DATA_SIZE == 100
TRAIN_BATCH_SIZE == 20

\* _transformed_name: key + '_xf'.  Keys are atoms here, so the suffixing is
\* tabulated over the five keys the module uses.
transformed_name(key) ==
  CASE key = "sepal_length" -> "sepal_length_xf"
    [] key = "sepal_width"  -> "sepal_width_xf"
    [] key = "petal_length" -> "petal_length_xf"
    [] key = "petal_width"  -> "petal_width_xf"
    [] key = "variety"      -> "variety_xf"

Range(s) == {s[i] : i \in DOMAIN s}

IsPrefix(s, t) ==
  /\ Len(s) <= Len(t)
  /\ \A i \in 1..Len(s) : s[i] = t[i]

(***************************************************************************)
(* Python arithmetic used by run_fn.  With `from __future__ import         *)
(* division`, a / b is true division: the quotient is a float, kept here   *)
(* as an exact fraction <<numerator, denominator>> with a positive         *)
(* denominator (every quotient the model forms is far below 2^53, where    *)
(* the float quotient truncates to the same integer as the exact one).     *)
(* int(x) truncates toward zero.                                           *)
(***************************************************************************)
Frac(n, d) == IF d < 0 THEN <<-n, -d>> ELSE <<n, d>>

\* int / int
TrueDiv(a, b) == Frac(a, b)

\* int / float
TrueDivByFrac(a, q) == Frac(a * q[2], q[1])

\* a bug variant of IntOf: the quotient is floored (as // or math.floor do)
IntOfFloor(q) == q[1] \div q[2]

\* int(float): toward zero
IntOf(q) == IF q[1] >= 0 THEN q[1] \div q[2] ELSE -((-q[1]) \div q[2])

\* line 135
StepsPerEpoch == TrueDiv(TRAIN_DATA_SIZE, TRAIN_BATCH_SIZE)

\* line 143
MaxIter(steps, spe) == IntOf(TrueDivByFrac(steps, spe))

(***************************************************************************)
(* run_fn.  Invocations of the trainer entry point are independent batch   *)
(* jobs that an orchestrator may start one after another or side by side;  *)
(* they meet only in the file system, at fn_args.serving_model_dir.        *)
(***************************************************************************)
NumInvocations == 2
Invocations == 1..NumInvocations

\* total-step budgets given to the invocations
StepBudgets == {0, 25}

MODEL_FILE == "saved_model.joblib"

\* the steps of run_fn in program order (lines 130, 132, 133, 135-146,
\* 148-149, 152, 153-154)
RunOrder == <<"load_transform", "train_input", "eval_input", "fit", "score",
              "makedirs", "dump">>

NoModel == [max_iter |-> 0, fitted |-> FALSE, by |-> 0]

\* what the serving directory may look like before any invocation
NoDir == [exists |-> FALSE, files |-> <<>>]
EmptyDir == [exists |-> TRUE, files |-> <<>>]
OldModel == [max_iter |-> 7, fitted |-> TRUE, by |-> 0]
\* a file written by joblib.dump: the pickled object, whole or cut short
Pickle(m, whole) == [data |-> m, complete |-> whole]
InitialDirs ==
  { NoDir, EmptyDir,
    [exists |-> TRUE, files |-> [f \in {MODEL_FILE} |-> Pickle(OldModel, TRUE)]],
    [exists |-> TRUE, files |-> [f \in {"README"} |-> "text"]] }

InitRun ==
  /\ pc = [p \in Invocations |-> "idle"]
  /\ fn_args = [p \in Invocations |-> [train_steps |-> 0]]
  /\ existed = [p \in Invocations |-> FALSE]
  /\ model = [p \in Invocations |-> NoModel]
  /\ trace = [p \in Invocations |-> <<>>]
  /\ raised = [p \in Invocations |-> "none"]
  /\ serving \in InitialDirs
  /\ EpochParked /\ PreParked /\ InParked /\ DepParked

\* a step of invocation p ends: control moves on, or an exception leaves run_fn
Advance(p, step, next) ==
  /\ pc' = [pc EXCEPT ![p] = next]
  /\ trace' = [trace EXCEPT ![p] = Append(@, step)]

Raise(p, step, exc) ==
  /\ pc' = [pc EXCEPT ![p] = "failed"]
  /\ trace' = [trace EXCEPT ![p] = Append(@, step)]
  /\ raised' = [raised EXCEPT ![p] = exc]

\* the orchestrator calls run_fn(fn_args)
Invoke(p) ==
  /\ pc[p] = "idle"
  /\ \E s \in StepBudgets : fn_args' = [fn_args EXCEPT ![p] = [train_steps |-> s]]
  /\ existed' = [existed EXCEPT ![p] = serving.exists]
  /\ pc' = [pc EXCEPT ![p] = "load_transform"]
  /\ UNCHANGED <<model, trace, raised, serving>>

\* line 130
LoadTransform(p) ==
  /\ pc[p] = "load_transform"
  /\ \/ Advance(p, "load_transform", "train_input") /\ UNCHANGED raised
     \/ Raise(p, "load_transform", "LibraryError")
  /\ UNCHANGED <<fn_args, existed, model, serving>>

\* line 132
TrainInput(p) ==
  /\ pc[p] = "train_input"
  /\ \/ Advance(p, "train_input", "eval_input") /\ UNCHANGED raised
     \/ Raise(p, "train_input", "LibraryError")
  /\ UNCHANGED <<fn_args, existed, model, serving>>

\* line 133
EvalInput(p) ==
  /\ pc[p] = "eval_input"
  /\ \/ Advance(p, "eval_input", "fit") /\ UNCHANGED raised
     \/ Raise(p, "eval_input", "LibraryError")
  /\ UNCHANGED <<fn_args, existed, model, serving>>

\* a bug variant of Fit: a failed fit is tried again
FitRetry(p) ==
  /\ pc[p] = "fit"
  /\ LET built == [max_iter |-> MaxIter(fn_args[p].train_steps, StepsPerEpoch),
                   fitted |-> FALSE, by |-> p]
     IN \/ /\ model' = [model EXCEPT ![p] = [built EXCEPT !.fitted = TRUE]]
           /\ Advance(p, "fit", "score")
           /\ UNCHANGED raised
        \/ /\ model' = [model EXCEPT ![p] = built]
           /\ Advance(p, "fit", "fit")
           /\ UNCHANGED raised
  /\ UNCHANGED <<fn_args, existed, serving>>

\* lines 135-146: the classifier is built with max_iter, then fitted
Fit(p) ==
  /\ pc[p] = "fit"
  /\ LET built == [max_iter |-> MaxIter(fn_args[p].train_steps, StepsPerEpoch),
                   fitted |-> FALSE, by |-> p]
     IN \/ /\ model' = [model EXCEPT ![p] = [built EXCEPT !.fitted = TRUE]]
           /\ Advance(p, "fit", "score")
           /\ UNCHANGED raised
        \/ /\ model' = [model EXCEPT ![p] = built]
           /\ Raise(p, "fit", "LibraryError")
  /\ UNCHANGED <<fn_args, existed, serving>>

\* lines 148-149
Score(p) ==
  /\ pc[p] = "score"
  /\ \/ Advance(p, "score", "makedirs") /\ UNCHANGED raised
     \/ Raise(p, "score", "LibraryError")
  /\ UNCHANGED <<fn_args, existed, model, serving>>

\* a bug variant of MakeDirs: a directory found there is cleared and reused
MakeDirsReplacing(p) ==
  /\ pc[p] = "makedirs"
  /\ \/ /\ serving' = [exists |-> TRUE, files |-> <<>>]
        /\ Advance(p, "makedirs", "dump")
        /\ UNCHANGED raised
     \/ /\ ~serving.exists
        /\ Raise(p, "makedirs", "OSError")
        /\ UNCHANGED serving
  /\ UNCHANGED <<fn_args, existed, model>>

\* a bug variant of MakeDirs: os.makedirs(dir, exist_ok=True)
MakeDirsExistOk(p) ==
  /\ pc[p] = "makedirs"
  /\ \/ /\ serving' = [serving EXCEPT !.exists = TRUE]
        /\ Advance(p, "makedirs", "dump")
        /\ UNCHANGED raised
     \/ /\ ~serving.exists
        /\ Raise(p, "makedirs", "OSError")
        /\ UNCHANGED serving
  /\ UNCHANGED <<fn_args, existed, model>>

\* line 152: os.makedirs(fn_args.serving_model_dir), exist_ok left at False
MakeDirs(p) ==
  /\ pc[p] = "makedirs"
  /\ \/ /\ serving.exists
        /\ Raise(p, "makedirs", "FileExistsError")
        /\ UNCHANGED serving
     \/ /\ ~serving.exists
        /\ serving' = [exists |-> TRUE, files |-> <<>>]
        /\ Advance(p, "makedirs", "dump")
        /\ UNCHANGED raised
     \/ /\ ~serving.exists
        /\ Raise(p, "makedirs", "OSError")
        /\ UNCHANGED serving
  /\ UNCHANGED <<fn_args, existed, model>>

\* the directory with file name holding content (created or overwritten)
WriteFile(dir, name, content) ==
  [dir EXCEPT !.files =
     [f \in DOMAIN dir.files \cup {name} |->
        IF f = name THEN content ELSE dir.files[f]]]

\* a bug variant of Dump: the model is written under another name
DumpOtherName(p) ==
  /\ pc[p] = "dump"
  /\ \/ /\ serving' = WriteFile(serving, "model.joblib", Pickle(model[p], TRUE))
        /\ Advance(p, "dump", "done")
        /\ UNCHANGED raised
     \/ /\ Raise(p, "dump", "OSError")
        /\ UNCHANGED serving
  /\ UNCHANGED <<fn_args, existed, model>>

\* lines 153-154: joblib.dump(model, <dir>/saved_model.joblib).  A dump that
\* fails leaves nothing behind or a truncated file.
Dump(p) ==
  /\ pc[p] = "dump"
  /\ \/ /\ serving' = WriteFile(serving, MODEL_FILE, Pickle(model[p], TRUE))
        /\ Advance(p, "dump", "done")
        /\ UNCHANGED raised
     \/ /\ Raise(p, "dump", "OSError")
        /\ \/ UNCHANGED serving
           \/ serving' = WriteFile(serving, MODEL_FILE, Pickle(model[p], FALSE))
  /\ UNCHANGED <<fn_args, existed, model>>

NextRun ==
  /\ \E p \in Invocations :
       \/ Invoke(p)
       \/ LoadTransform(p)
       \/ TrainInput(p)
       \/ EvalInput(p)
       \/ Fit(p)
       \/ Score(p)
       \/ MakeDirs(p)
       \/ Dump(p)
  /\ UNCHANGED <<epochVars, preVars, inVars, depVars>>

SpecRun == InitRun /\ [][NextRun]_vars

(***************************************************************************)
(* Properties of run_fn                                                    *)
(***************************************************************************)
HasModelFile(dir) == MODEL_FILE \in DOMAIN dir.files

\* invocation p took a step
Stepped(p) == pc'[p] # pc[p] \/ trace'[p] # trace[p]

\* C1: an invocation that finds the serving directory already there when it
\* is invoked never gets past os.makedirs: that step raises FileExistsError
\* out of run_fn, and no step of the invocation changes the directory or
\* its contents.
C1_ExistingDirFails ==
  [][\A p \in Invocations :
       (pc[p] # "idle" /\ existed[p] /\ Stepped(p)) =>
          /\ serving' = serving
          /\ pc'[p] \notin {"dump", "done"}
          /\ (pc[p] = "makedirs" =>
                pc'[p] = "failed" /\ raised'[p] = "FileExistsError")]_vars

C1_Witness ==
  \E p \in Invocations :
    /\ existed[p]
    /\ pc[p] = "failed"
    /\ raised[p] = "FileExistsError"
    /\ trace[p] = SubSeq(RunOrder, 1, 6)
    /\ HasModelFile(serving)

\* C4: once saved_model.joblib is in the serving directory, no step of any
\* invocation, in any interleaving, replaces or changes it: the file is
\* written at most once.
C4_WrittenOnce ==
  [][HasModelFile(serving) =>
       /\ HasModelFile(serving')
       /\ serving'.files[MODEL_FILE] = serving.files[MODEL_FILE]]_vars

C4_Witness ==
  \E p, q \in Invocations :
    /\ p # q
    /\ pc[p] = "done"
    /\ HasModelFile(serving)
    /\ serving.files[MODEL_FILE].data.by = p
    /\ trace[q] = SubSeq(RunOrder, 1, 6)
    /\ raised[q] = "FileExistsError"
    /\ existed[q] = FALSE

\* C6: an invocation with a step budget of 25 that runs to its end leaves
\* the serving directory in existence with exactly one file,
\* saved_model.joblib, holding in full the classifier this invocation fitted.
C6_OneModelFile ==
  \A p \in Invocations :
    (pc[p] = "done" /\ fn_args[p].train_steps = 25) =>
       /\ ~existed[p]
       /\ serving.exists
       /\ DOMAIN serving.files = {MODEL_FILE}
       /\ serving.files[MODEL_FILE] = Pickle(model[p], TRUE)
       /\ model[p].fitted
       /\ model[p].by = p

C6_Witness ==
  \E p \in Invocations :
    /\ pc[p] = "done"
    /\ fn_args[p].train_steps = 25
    /\ model[p].max_iter = 5
    /\ \E q \in Invocations : q # p /\ pc[q] = "failed"

\* the model file in the directory was written by invocation p
WroteModelFile(p) ==
  /\ HasModelFile(serving)
  /\ serving.files[MODEL_FILE].data.by = p

\* C8: the steps of an invocation are taken in the fixed order of RunOrder,
\* each at most once; a step that fails ends the invocation with its
\* exception (nothing runs after it, nothing is retried); and a model file
\* written by an invocation is there only after its fit and its scoring
\* completed.
C8_FixedOrderNoRetry ==
  [][\A p \in Invocations :
       /\ IsPrefix(trace'[p], RunOrder)
       /\ (pc[p] \in {"failed", "done"} => ~Stepped(p))
       /\ (Stepped(p) /\ pc[p] # "idle" => trace'[p] = Append(trace[p], pc[p]))
       /\ (pc'[p] = "failed" => raised'[p] # "none")
       /\ (pc'[p] \notin {"idle", "failed", "done"} =>
             pc'[p] = RunOrder[Len(trace'[p]) + 1])
       /\ (WroteModelFile(p)' =>
             /\ model'[p].fitted
             /\ IsPrefix(SubSeq(RunOrder, 1, 7), trace'[p]))]_vars

C8_Witness ==
  \E p, q \in Invocations :
    /\ pc[p] = "failed"
    /\ trace[p] = SubSeq(RunOrder, 1, 4)
    /\ raised[p] = "LibraryError"
    /\ pc[q] = "done"

(***************************************************************************)
(* The epoch arithmetic of run_fn on its own, over a range of budgets.     *)
(***************************************************************************)
MaxSteps == 30

InitEpoch ==
  /\ train_steps \in -MaxSteps..MaxSteps
  /\ steps_per_epoch = <<0, 1>>
  /\ max_iter = 0
  /\ epc = "line135"
  /\ RunParked /\ PreParked /\ InParked /\ DepParked

\* line 135: steps_per_epoch = _TRAIN_DATA_SIZE / _TRAIN_BATCH_SIZE
EpochLine135 ==
  /\ epc = "line135"
  /\ steps_per_epoch' = StepsPerEpoch
  /\ epc' = "line143"
  /\ UNCHANGED <<train_steps, max_iter>>

\* line 143: max_iter=int(fn_args.train_steps / steps_per_epoch)
EpochLine143 ==
  /\ epc = "line143"
  /\ max_iter' = MaxIter(train_steps, steps_per_epoch)
  /\ epc' = "done"
  /\ UNCHANGED <<train_steps, steps_per_epoch>>

NextEpoch ==
  /\ \/ EpochLine135
     \/ EpochLine143
  /\ UNCHANGED <<runVars, preVars, inVars, depVars>>

SpecEpoch == InitEpoch /\ [][NextEpoch]_vars

\* C2 as claimed: for every integer budget S, max_iter is floor(S / 5).
C2_FloorForEveryBudget ==
  epc = "done" => max_iter = train_steps \div 5

\* C2 as amended: max_iter is S / 5 truncated toward zero, which is
\* floor(S / 5) for S >= 0 (S = 0 and non-multiples of 5 included) and
\* -floor(-S / 5) for S < 0.
C2_TruncatedTowardZero ==
  epc = "done" =>
    /\ (train_steps >= 0 => max_iter = train_steps \div 5)
    /\ (train_steps < 0 => max_iter = -((-train_steps) \div 5))

C2_Witness ==
  /\ epc = "done"
  /\ train_steps = -3
  /\ max_iter = 0

(***************************************************************************)
(* preprocessing_fn.  tf.transform calls it once on symbolic tensors: a    *)
(* tensor is kept as its kind (the Python class), the input column it      *)
(* comes from, its dtype and the operations applied to it so far.          *)
(***************************************************************************)
TensorKinds == {"Tensor", "SparseTensor"}
LabelDtypes == {"int64", "string"}

RawTensor(col, kind, dtype) ==
  [col |-> col, kind |-> kind, dtype |-> dtype, ops |-> <<>>]

\* tft.scale_to_z_score(x): a new tensor of the class of x (dense for a
\* dense x, sparse for a sparse x) holding (x - mean) / stddev
scale_to_z_score(x) ==
  [col |-> x.col, kind |-> x.kind, dtype |-> "float32",
   ops |-> Append(x.ops, "scale_to_z_score")]

\* line 116 with assertions stripped (python -O)
IsTensorUnchecked(x) == TRUE

\* line 116: isinstance(std_input, tf.Tensor)
IsTensor(x) == x.kind = "Tensor"

\* a bug variant of LabelOut: the label is standardized like a feature
LabelOutScaled(in) == scale_to_z_score(in[LABEL_KEY])

\* line 118, right-hand side
LabelOut(in) == in[LABEL_KEY]

\* outputs[name] = value
SetItem(dict, name, value) ==
  [k \in DOMAIN dict \cup {name} |-> IF k = name THEN value ELSE dict[k]]

NotReturned == [status |-> "pending", value |-> <<>>, exc |-> "none"]

RawInputs ==
  { [k \in Range(FEATURE_KEYS) \cup {LABEL_KEY} |->
       IF k = LABEL_KEY THEN RawTensor(k, lk, ld)
                        ELSE RawTensor(k, fk[k], "float32")] :
      fk \in [Range(FEATURE_KEYS) -> TensorKinds],
      lk \in TensorKinds, ld \in LabelDtypes }

InitPre ==
  /\ inputs \in RawInputs
  /\ outputs = <<>>
  /\ key_idx = 1
  /\ pre_pc = "loop"
  /\ pre_result = NotReturned
  /\ RunParked /\ EpochParked /\ InParked /\ DepParked

\* lines 114-117: one turn of the loop over _FEATURE_KEYS
PreLoopIteration ==
  /\ pre_pc = "loop"
  /\ key_idx <= Len(FEATURE_KEYS)
  /\ LET key == FEATURE_KEYS[key_idx]
         std_input == scale_to_z_score(inputs[key])
     IN \/ /\ IsTensor(std_input)
           /\ outputs' = SetItem(outputs, transformed_name(key), std_input)
           /\ key_idx' = key_idx + 1
           /\ UNCHANGED <<pre_pc, pre_result>>
        \/ /\ ~IsTensor(std_input)
           /\ pre_pc' = "raised"
           /\ pre_result' = [NotReturned EXCEPT !.status = "raised",
                                                !.exc = "AssertionError"]
           /\ UNCHANGED <<outputs, key_idx>>
  /\ UNCHANGED inputs

\* lines 118-120
PreReturn ==
  /\ pre_pc = "loop"
  /\ key_idx > Len(FEATURE_KEYS)
  /\ outputs' = SetItem(outputs, transformed_name(LABEL_KEY), LabelOut(inputs))
  /\ pre_result' = [NotReturned EXCEPT !.status = "returned", !.value = outputs']
  /\ pre_pc' = "returned"
  /\ UNCHANGED <<inputs, key_idx>>

NextPre ==
  /\ \/ PreLoopIteration
     \/ PreReturn
  /\ UNCHANGED <<runVars, epochVars, inVars, depVars>>

SpecPre == InitPre /\ [][NextPre]_vars

\* C5: no step of preprocessing_fn changes the input mapping, and the mapping
\* it returns holds under 'variety_xf' exactly the value the input holds
\* under 'variety'.
C5_LabelCarriedThrough ==
  [][/\ inputs' = inputs
     /\ (pre_pc' = "returned" =>
           /\ "variety_xf" \in DOMAIN pre_result'.value
           /\ pre_result'.value["variety_xf"] = inputs["variety"])]_vars

C5_Witness ==
  /\ pre_pc = "returned"
  /\ inputs["variety"].dtype = "string"
  /\ pre_result.value["variety_xf"] = RawTensor("variety", "SparseTensor", "string")

\* the keys of _FEATURE_KEYS whose standardized value is no tf.Tensor
Offending ==
  {i \in 1..Len(FEATURE_KEYS) :
     scale_to_z_score(inputs[FEATURE_KEYS[i]]).kind # "Tensor"}

\* C9: when the standardized value of some feature key is not a tf.Tensor,
\* preprocessing_fn does not return: it raises AssertionError at the first
\* such key in _FEATURE_KEYS order and hands no mapping to the caller; when
\* all four are tensors, the returned mapping has exactly the five _xf keys.
C9_FailsLoudly ==
  /\ (pre_pc = "returned" =>
        /\ Offending = {}
        /\ DOMAIN pre_result.value =
             {"sepal_length_xf", "sepal_width_xf", "petal_length_xf",
              "petal_width_xf", "variety_xf"})
  /\ (pre_pc = "raised" =>
        /\ Offending # {}
        /\ \A i \in Offending : key_idx <= i
        /\ key_idx \in Offending
        /\ pre_result.exc = "AssertionError"
        /\ pre_result.value = <<>>)
  /\ (pre_pc = "loop" => pre_result = NotReturned)
  /\ (Offending # {} => \A i \in Offending : key_idx <= i)

C9_Witness ==
  /\ pre_pc = "raised"
  /\ key_idx = 3
  /\ Offending = {3, 4}
  /\ DOMAIN outputs = {"sepal_length_xf", "sepal_width_xf"}

(***************************************************************************)
(* _input_fn and _tf_dataset_to_numpy.  The tf.data pipeline is lazy: the  *)
(* for loop of _tf_dataset_to_numpy pulls elements from shuffle, which     *)
(* pulls from map(_parse_example), which pulls records from the files.     *)
(* A tensor of shape [1] is a sequence of one number.                      *)
(***************************************************************************)
MaxRecords == 3

\* the capacity of the shuffle buffer (line 98 gives 10000; the model takes
\* a capacity that datasets of MaxRecords records can both fit in and exceed)
ShuffleBuffer == 2

\* tf_transform_output.transformed_feature_spec(): the five transformed keys
TransformedFeatureSpec ==
  {transformed_name(FEATURE_KEYS[i]) : i \in 1..Len(FEATURE_KEYS)}
    \cup {transformed_name(LABEL_KEY)}

\* a serialized tf.Example as the map from its feature names to their values
Example(sl, sw, pl, pw, variety) ==
  [k \in TransformedFeatureSpec |->
     CASE k = "sepal_length_xf" -> <<sl>>
       [] k = "sepal_width_xf"  -> <<sw>>
       [] k = "petal_length_xf" -> <<pl>>
       [] k = "petal_width_xf"  -> <<pw>>
       [] k = "variety_xf"      -> <<variety>>]

\* dict minus one key
Without(dict, name) == [k \in DOMAIN dict \ {name} |-> dict[k]]

\* the records the files may hold: two labelled flowers, a third with the
\* measurements of the first and another label and a feature the spec does
\* not name, and a record that lacks a feature
ExamplePool ==
  { Example(1, 2, 3, 4, 0),
    Example(5, 6, 7, 8, 1),
    SetItem(Example(1, 2, 3, 4, 2), "id", <<9>>),
    Without(Example(5, 6, 7, 8, 2), "petal_width_xf") }

SeqsUpTo(S, n) == UNION {[1..k -> S] : k \in 0..n}

\* tf.io.parse_single_example: the features the spec names, or an error
Parseable(example, spec) == spec \subseteq DOMAIN example
parse_single_example(example, spec) == [k \in spec |-> example[k]]

\* lines 87-91: the parsed example without its label, and the label
parse_example(example) ==
  LET parsed_example == parse_single_example(example, TransformedFeatureSpec)
      label == parsed_example[transformed_name(LABEL_KEY)]
  IN <<Without(parsed_example, transformed_name(LABEL_KEY)), label>>

\* np.concatenate of a list of 1-D arrays
RECURSIVE concatenate(_)
concatenate(arrays) ==
  IF arrays = <<>> THEN <<>>
  ELSE Head(arrays) \o concatenate(Tail(arrays))

\* a bug variant of Row: the columns follow the sorted keys of the dict
RowInDictOrder(feature_dict) ==
  concatenate(<<feature_dict["petal_length_xf"], feature_dict["petal_width_xf"],
                feature_dict["sepal_length_xf"], feature_dict["sepal_width_xf"]>>)

\* lines 65-67: the row of one element, columns in _FEATURE_KEYS order
\* (.T leaves a 1-D array as it is)
Row(feature_dict) ==
  concatenate([i \in 1..Len(FEATURE_KEYS) |->
                 feature_dict[transformed_name(FEATURE_KEYS[i])]])

RemoveAt(s, i) == SubSeq(s, 1, i - 1) \o SubSeq(s, i + 1, Len(s))

Pending ==
  [status |-> "pending", shape |-> <<0, 0>>, features |-> <<>>,
   labels |-> <<>>, exc |-> "none"]

InitInput ==
  /\ source \in SeqsUpTo(ExamplePool, MaxRecords)
  /\ cursor = 0
  /\ buffer = <<>>
  /\ feature_list = <<>>
  /\ label_list = <<>>
  /\ in_pc = "iterating"
  /\ in_result = Pending
  /\ RunParked /\ EpochParked /\ PreParked /\ DepParked

\* lines 94-98: shuffle takes the next record through map(_parse_example)
\* into its buffer; a record that does not parse aborts the load
ShuffleFill ==
  /\ in_pc = "iterating"
  /\ cursor < Len(source)
  /\ Len(buffer) < ShuffleBuffer
  /\ LET example == source[cursor + 1]
     IN \/ /\ Parseable(example, TransformedFeatureSpec)
           /\ buffer' = Append(buffer, parse_example(example))
           /\ cursor' = cursor + 1
           /\ UNCHANGED <<in_pc, in_result>>
        \/ /\ ~Parseable(example, TransformedFeatureSpec)
           /\ in_pc' = "raised"
           /\ in_result' = [Pending EXCEPT !.status = "raised",
                                           !.exc = "InvalidArgumentError"]
           /\ UNCHANGED <<buffer, cursor>>
  /\ UNCHANGED <<source, feature_list, label_list>>

\* lines 64-69: shuffle hands out an element of its buffer picked at random
\* (once the buffer is full or the input is used up) and the loop body
\* appends its row and its label
LoopIteration ==
  /\ in_pc = "iterating"
  /\ buffer # <<>>
  /\ Len(buffer) = ShuffleBuffer \/ cursor = Len(source)
  /\ \E i \in DOMAIN buffer :
       LET feature_dict == buffer[i][1]
           labels == buffer[i][2]
       IN /\ feature_list' = Append(feature_list, Row(feature_dict))
          /\ label_list' = Append(label_list, labels)
          /\ buffer' = RemoveAt(buffer, i)
  /\ UNCHANGED <<source, cursor, in_pc, in_result>>

\* line 70: np.vstack(feature_list), np.concatenate(label_list); both raise
\* ValueError on an empty list
Return ==
  /\ in_pc = "iterating"
  /\ buffer = <<>>
  /\ cursor = Len(source)
  /\ \/ /\ feature_list # <<>>
        /\ in_pc' = "returned"
        /\ in_result' =
             [Pending EXCEPT !.status = "returned",
                             !.shape = <<Len(feature_list), Len(feature_list[1])>>,
                             !.features = feature_list,
                             !.labels = concatenate(label_list)]
     \/ /\ feature_list = <<>>
        /\ in_pc' = "raised"
        /\ in_result' = [Pending EXCEPT !.status = "raised", !.exc = "ValueError"]
  /\ UNCHANGED <<source, cursor, buffer, feature_list, label_list>>

NextInput ==
  /\ \/ ShuffleFill
     \/ LoopIteration
     \/ Return
  /\ UNCHANGED <<runVars, epochVars, preVars, depVars>>

SpecInput == InitInput /\ [][NextInput]_vars

WellFormed(examples) ==
  \A i \in DOMAIN examples : Parseable(examples[i], TransformedFeatureSpec)

\* C3 as claimed: for a dataset of N >= 0 records that parse, the helper
\* returns a feature matrix of shape (N, 4) and a label vector of length N.
C3_ShapeForAnyN ==
  (in_pc # "iterating" /\ WellFormed(source)) =>
     /\ in_pc = "returned"
     /\ in_result.shape = <<Len(source), 4>>
     /\ Len(in_result.features) = Len(source)
     /\ Len(in_result.labels) = Len(source)

Orderings(n) ==
  {f \in [1..n -> 1..n] : \A i, j \in 1..n : f[i] = f[j] => i = j}

\* C10: what the helper returns is the input records in some order: row i
\* and label i come from one record, each record is used exactly once, and
\* the columns of a row are sepal_length, sepal_width, petal_length,
\* petal_width in that order.
C10_RecordsKeptWhole ==
  in_pc = "returned" =>
    /\ Len(in_result.features) = Len(source)
    /\ Len(in_result.labels) = Len(source)
    /\ \E f \in Orderings(Len(source)) :
         \A i \in 1..Len(source) :
           /\ in_result.features[i] =
                <<source[f[i]]["sepal_length_xf"][1],
                  source[f[i]]["sepal_width_xf"][1],
                  source[f[i]]["petal_length_xf"][1],
                  source[f[i]]["petal_width_xf"][1]>>
           /\ in_result.labels[i] = source[f[i]]["variety_xf"][1]

C10_Witness ==
  /\ in_pc = "returned"
  /\ Len(source) = 3
  /\ in_result.features = <<<<5, 6, 7, 8>>, <<1, 2, 3, 4>>, <<1, 2, 3, 4>>>>
  /\ in_result.labels = <<1, 2, 0>>
  /\ source[1]["variety_xf"] = <<0>>

(***************************************************************************)
(* dependencies.py.  A caller (the package's setup script) calls the list  *)
(* functions in any order, any number of times; returned holds the list    *)
(* each function last gave it (<<>> before its first call).                *)
(***************************************************************************)
make_required_install_packages ==
  << "absl-py>=0.1.6,<0.9",
     "apache-beam[gcp]>=2.20,<3",
     "avro-python3>=1.8.1,!=1.9.2.*,<2.0.0; python_version==\"3.5\" and platform_system==\"Darwin\"",
     "click>=7,<8",
     "docker>=4.1,<5",
     "google-api-python-client>=1.7.8,<2",
     "grpcio>=1.28.1,<2",
     "jinja2>=2.7.3,<3",
     "kubernetes>=10.0.1,<12",
     "ml-metadata>=0.21.2,<0.22",
     "protobuf>=3.7,<4",
     "pyarrow>=0.16,<0.17",
     "pyyaml>=5,<6",
     "six>=1.10,<2",
     "tensorflow>=1.15,<2.2",
     "tensorflow-data-validation>=0.21.4,<0.22",
     "tensorflow-model-analysis>=0.21.4,<0.22",
     "tensorflow-serving-api>=1.15,<3",
     "tensorflow-transform>=0.21.2,<0.22",
     "tfx-bsl>=0.21.3,<0.22" >>

make_required_test_packages ==
  << "apache-airflow>=1.10.10,<2",
     "kfp>=0.4,<0.5",
     "pytest>=5,<6" >>

make_extra_packages_docker_image ==
  << "python-snappy>=0.5,<0.6" >>

make_extra_packages_tfjs ==
  << "tensorflowjs>=1.7.3,<2" >>

ListFunctions == {"install", "test", "docker_image", "tfjs", "all"}

InitDep ==
  /\ returned = [f \in ListFunctions |-> <<>>]
  /\ all_pc = "idle"
  /\ all_left = <<>>
  /\ all_right = <<>>
  /\ RunParked /\ EpochParked /\ PreParked /\ InParked

Returns(f, list) ==
  /\ all_pc = "idle"
  /\ returned' = [returned EXCEPT ![f] = list]
  /\ UNCHANGED <<all_pc, all_left, all_right>>

CallInstall == Returns("install", make_required_install_packages)
CallTest == Returns("test", make_required_test_packages)
CallDockerImage == Returns("docker_image", make_extra_packages_docker_image)
CallTfjs == Returns("tfjs", make_extra_packages_tfjs)

\* line 80, left operand: make_required_test_packages()
AllCallLeft ==
  /\ all_pc = "idle"
  /\ all_left' = make_required_test_packages
  /\ all_pc' = "left"
  /\ UNCHANGED <<returned, all_right>>

\* line 80, right operand: make_extra_packages_tfjs()
AllCallRight ==
  /\ all_pc = "left"
  /\ all_right' = make_extra_packages_tfjs
  /\ all_pc' = "right"
  /\ UNCHANGED <<returned, all_left>>

\* line 80: the + of the two lists, a new list
AllAdd ==
  /\ all_pc = "right"
  /\ all_left' = all_left \o all_right
  /\ all_right' = <<>>
  /\ all_pc' = "sum"
  /\ UNCHANGED returned

\* line 80: return
AllReturn ==
  /\ all_pc = "sum"
  /\ returned' = [returned EXCEPT !["all"] = all_left]
  /\ all_pc' = "idle"
  /\ all_left' = <<>>
  /\ UNCHANGED all_right

NextDep ==
  /\ \/ CallInstall
     \/ CallTest
     \/ CallDockerImage
     \/ CallTfjs
     \/ AllCallLeft
     \/ AllCallRight
     \/ AllAdd
     \/ AllReturn
  /\ UNCHANGED <<runVars, epochVars, preVars, inVars>>

SpecDep == InitDep /\ [][NextDep]_vars

\* C7 as claimed: what make_all_dependency_packages returns starts with the
\* test packages in their order and holds every entry of the docker-image
\* list and of the tfjs list.
C7_AllHoldsTestAndOptional ==
  returned["all"] # <<>> =>
    /\ IsPrefix(make_required_test_packages, returned["all"])
    /\ Range(make_extra_packages_docker_image) \subseteq Range(returned["all"])
    /\ Range(make_extra_packages_tfjs) \subseteq Range(returned["all"])

====
